---- MODULE Spec2Model ----
(***************************************************************************)
(* gmail-transform worker: a Gmail push notification {emailAddress,        *)
(* historyId} is resolved against the last stored historyId into the       *)
(* messages added since, each message is filtered by sender and POSTed to  *)
(* OpenClaw, and the stored historyId is replaced by the notification's.   *)
(*                                                                         *)
(* processNotification is modelled as a process whose steps are the        *)
(* segments between its await points; every network call picks its         *)
(* outcome nondeterministically.  Strings that the code inspects character *)
(* by character are sequences of one-character strings.                    *)
(***************************************************************************)
EXTENDS Integers, Sequences, FiniteSets, TLC

(* ------------------------------ bounds -------------------------------- *)

\* longest from value and longest allow-list tried on isAllowedSender
MaxStringLen == 3

\* how far from the ends and from the snippet's length the body lengths
\* tried on the truncation lie
MaxBodyExtra == 2

\* longest from, subject, body and snippet tried on transformToOpenClaw
MaxFieldLen == 2

\* longest Gmail history (change feed) of the mailbox
MaxHistory == 3

\* number of notifications pushed in one run
MaxNotifs == 3

\* largest maxRetries argument tried on sendToOpenClawWithRetry
MaxRetriesBound == 6

\* the invocations of processNotification the model holds
Procs == {1, 2}

Mailboxes == {"a@x.com"}

MsgIds == {"m1", "m2"}

\* GMAIL_STATE.get of a key never written returns null
NoCursor == 0

(* ------------------------------ strings ------------------------------- *)

Whitespace == {" "}

LowerChar(c) ==
  CASE c = "A" -> "a"
    [] c = "B" -> "b"
    [] c = "X" -> "x"
    [] OTHER -> c

ToLowerCase(s) == [i \in 1..Len(s) |-> LowerChar(s[i])]

RECURSIVE TrimStart(_)
TrimStart(s) ==
  IF s # <<>> /\ Head(s) \in Whitespace THEN TrimStart(Tail(s)) ELSE s

RECURSIVE TrimEnd(_)
TrimEnd(s) ==
  IF s # <<>> /\ s[Len(s)] \in Whitespace
  THEN TrimEnd(SubSeq(s, 1, Len(s) - 1))
  ELSE s

Trim(s) == TrimEnd(TrimStart(s))

RECURSIVE Split(_, _)
Split(s, sep) ==
  IF \E i \in 1..Len(s) : s[i] = sep
  THEN LET i == CHOOSE k \in 1..Len(s) :
                  s[k] = sep /\ \A j \in 1..(k - 1) : s[j] # sep
       IN  <<SubSeq(s, 1, i - 1)>> \o Split(SubSeq(s, i + 1, Len(s)), sep)
  ELSE <<s>>

\* fromAddress.match(/<(.+?)>/) || [null, fromAddress], element [1]:
\* leftmost "<" that is followed by at least one character and a ">",
\* the group ending at the nearest such ">"
EmailMatch(fromAddress) ==
  LET n == Len(fromAddress)
      Starts == {i \in 1..n : fromAddress[i] = "<"
                              /\ \E j \in (i + 2)..n : fromAddress[j] = ">"}
  IN  IF Starts = {}
      THEN fromAddress
      ELSE LET i == CHOOSE a \in Starts : \A b \in Starts : a <= b
               j == CHOOSE a \in (i + 2)..n :
                      /\ fromAddress[a] = ">"
                      /\ \A b \in (i + 2)..(a - 1) : fromAddress[b] # ">"
           IN  SubSeq(fromAddress, i + 1, j - 1)

\* the allow-list entries compared as written, untrimmed
isAllowedSenderUntrimmed(fromAddress, allowedSenders) ==
  IF allowedSenders = <<>> \/ Trim(allowedSenders) = <<>>
  THEN TRUE
  ELSE LET email == ToLowerCase(Trim(EmailMatch(fromAddress)))
           parts == Split(allowedSenders, ",")
           allowed == {ToLowerCase(parts[k]) : k \in 1..Len(parts)}
       IN  email \in allowed

\* the comparison without the lower-casing of the sender's address
isAllowedSenderCaseSensitive(fromAddress, allowedSenders) ==
  IF allowedSenders = <<>> \/ Trim(allowedSenders) = <<>>
  THEN TRUE
  ELSE LET email == Trim(EmailMatch(fromAddress))
           parts == Split(allowedSenders, ",")
           allowed == {ToLowerCase(Trim(parts[k])) : k \in 1..Len(parts)}
       IN  email \in allowed

isAllowedSender(fromAddress, allowedSenders) ==
  IF allowedSenders = <<>> \/ Trim(allowedSenders) = <<>>
  THEN TRUE
  ELSE LET email == ToLowerCase(Trim(EmailMatch(fromAddress)))
           parts == Split(allowedSenders, ",")
           allowed == {ToLowerCase(Trim(parts[k])) : k \in 1..Len(parts)}
       IN  email \in allowed

(* ----------------------- mailbox content (inputs) --------------------- *)

\* what the message fetch and the MIME parser yield for a message id
FromOf(id) == IF id = "m1" THEN <<"A", "@", "x">> ELSE <<"b", "@", "x">>

SubjectOf(id) == <<"s">>

BodyOf(id) == IF id = "m1" THEN <<"H", "i">> ELSE <<>>

\* configured values of env.ALLOWED_SENDERS
AllowLists == {<<>>, <<" ", "a", "@", "X", ",", "c", "@", "x">>}

\* one record of the Gmail history; its history id is its position.  A
\* record lists the messages added, or deletions and label changes.
HistoryRecords ==
  [messagesAdded : {<<m>> : m \in MsgIds}, messagesDeleted : {<<>>},
   labelsAdded : {<<>>}]
  \cup {[messagesAdded |-> <<>>, messagesDeleted |-> <<"m1">>,
         labelsAdded |-> <<"m2">>]}

HistoryStatuses == {200, 401, 500}

FetchOutcomes == {"ok", "notOk", "noRaw", "throws"}

DeliveryStatuses == {202, 500}

(* ---------------------------- pure helpers ---------------------------- *)

Min(a, b) == IF a <= b THEN a ELSE b

RECURSIVE Pow2(_)
Pow2(n) == IF n = 0 THEN 1 ELSE 2 * Pow2(n - 1)

\* Response.ok
ResponseOk(status) == status \in 200..299

\* KV key `last_history_${emailAddress}`
StateKey(emailAddress) == <<"last_history_", emailAddress>>

\* the test inverted: a stored cursor taken for a first notification
IsFirstNotificationInverted(last) == last # NoCursor

\* !lastHistoryId
IsFirstNotification(last) == last = NoCursor

\* history.list?startHistoryId=s : the records after s, up to the present
HistorySince(feed, startHistoryId) ==
  SubSeq(feed, startHistoryId + 1, Len(feed))

\* the ids collected last record first
RECURSIVE CollectMessageIdsReversed(_)
CollectMessageIdsReversed(records) ==
  IF records = <<>>
  THEN <<>>
  ELSE CollectMessageIdsReversed(Tail(records)) \o Head(records).messagesAdded

\* the nested loops over historyData.history[*].messagesAdded[*]
RECURSIVE CollectMessageIds(_)
CollectMessageIds(records) ==
  IF records = <<>>
  THEN <<>>
  ELSE Head(records).messagesAdded \o CollectMessageIds(Tail(records))

SnippetLength == 200

\* s.substring(0, n): the first n UTF-16 code units of s, a string being the
\* sequence of its code units
Substring(s, n) == SubSeq(s, 1, Min(n, Len(s)))

\* the object pushed to `emails` for a parsed message
ParsedEmail(id, from, subject, body) ==
  [messageId |-> id, from |-> from, subject |-> subject, body |-> body,
   snippet |-> Substring(body, SnippetLength)]

\* the ParsedEmail pushed for a fetched message
ParseMessage(id) == ParsedEmail(id, FromOf(id), SubjectOf(id), BodyOf(id))

\* the snippet preferred to the body
transformToOpenClawSnippetFirst(email) ==
  [message |-> <<"New email from ">> \o email.from \o <<"\nSubject: ">>
                 \o email.subject \o <<"\n\n">>
                 \o (IF email.snippet # <<>> THEN email.snippet ELSE email.body),
   name |-> "gmail-notification", channel |-> "last", wakeMode |-> "now"]

transformToOpenClaw(email) ==
  [message |-> <<"New email from ">> \o email.from \o <<"\nSubject: ">>
                 \o email.subject \o <<"\n\n">>
                 \o (IF email.body # <<>> THEN email.body ELSE email.snippet),
   name |-> "gmail-notification", channel |-> "last", wakeMode |-> "now"]

\* default value of sendToOpenClawWithRetry's maxRetries parameter
DefaultMaxRetries == 1

BackoffBaseMs == 1000

BackoffCapMs == 10000

\* the loop bound off by one
RetryLoopOffByOne(att, limit) == att <= limit

\* the retry loop's condition
RetryLoopContinues(att, limit) == att < limit

\* whether a delay follows failed attempt att
DelayFollows(att, limit) == att < limit - 1

\* the backoff without its cap
DelayMsUncapped(att) == BackoffBaseMs * Pow2(att)

DelayMs(att) == Min(BackoffBaseMs * Pow2(att), BackoffCapMs)

(* ------------------------------- state -------------------------------- *)

VARIABLES
  GMAIL_STATE,      \* the KV namespace: key -> stored historyId, or NoCursor
  history,          \* mailbox -> its Gmail history so far
  ALLOWED_SENDERS,  \* env.ALLOWED_SENDERS
  received,         \* notifications pushed so far
  pc,               \* where each invocation of processNotification stands
  notification,     \* its {emailAddress, historyId}
  result,           \* how it ended: "none", "baseline", "committed", "failed"
  caught,           \* the call whose error reached the catch block, or ""
  previous,         \* the gap left by the notification it handled before,
                    \* when that one's history.list failed other than by 401
  kvReads,          \* GMAIL_STATE.get calls it made
  kvWrites,         \* GMAIL_STATE.put calls it made
  lastHistoryId,    \* the value it read from GMAIL_STATE
  refreshCount,     \* refreshAccessToken calls of its fetchNewEmails
  queries,          \* statuses answered to its history.list requests
  fetchCount,       \* message requests of its fetchNewEmails
  messageIds,       \* fetchNewEmails' messageIds
  mi,               \* position of fetchNewEmails' loop in messageIds
  skipped,          \* positions of messageIds left out by `continue`
  emails,           \* the ParsedEmail array
  ei,               \* position of processNotification's loop in emails
  processedCount,
  filteredCount,
  tried,            \* message ids handed to sendToOpenClawWithRetry
  sent,             \* message ids whose POST was answered 2xx
  payload,          \* sendToOpenClawWithRetry's payload argument
  maxRetries,       \* its maxRetries argument
  attempt,          \* its loop variable
  lastError,        \* status of its last failed POST, 0 for null
  posts,            \* statuses answered to the POSTs of the current
                    \* sendToOpenClawWithRetry call
  delays,           \* the setTimeout delays of that call, in order
  request,          \* the last HTTP request the fetch handler took, per slot
  response,         \* the status it answered, 0 before any
  arg,              \* the arguments of a function called on its own
  ret               \* what that call returned

httpVars == <<request, response>>

callVars == <<arg, ret>>

envVars ==
  <<GMAIL_STATE, history, ALLOWED_SENDERS, received, httpVars, callVars>>

resolverVars ==
  <<lastHistoryId, refreshCount, queries, fetchCount, messageIds, mi,
    skipped, emails>>

loopVars == <<ei, processedCount, filteredCount, tried, sent>>

retryVars == <<payload, maxRetries, attempt, lastError, posts, delays>>

outcomeVars == <<result, caught>>

vars ==
  <<envVars, pc, notification, outcomeVars, previous, kvReads, kvWrites,
    resolverVars, loopVars, retryVars>>

\* before any call of sendToOpenClawWithRetry
NoPayload == [message |-> <<>>, name |-> "", channel |-> "", wakeMode |-> ""]

\* no failed history.list to make up for
NoGap == [since |-> 0, upto |-> 0]

\* before any request
NoRequest ==
  [method |-> "", pathname |-> "",
   body |-> [json |-> FALSE, message |-> FALSE, data |-> "", text |-> "",
             emailAddress |-> "", historyId |-> 0]]

\* before any response
NoResponse == [status |-> 0, body |-> ""]

\* no function called on its own
NoCall == [fn |-> ""]

\* every invocation slot before its first use
Locals ==
  /\ pc = [p \in Procs |-> "idle"]
  /\ notification = [p \in Procs |-> [emailAddress |-> "", historyId |-> 0]]
  /\ result = [p \in Procs |-> "none"]
  /\ caught = [p \in Procs |-> ""]
  /\ previous = [p \in Procs |-> NoGap]
  /\ kvReads = [p \in Procs |-> 0]
  /\ kvWrites = [p \in Procs |-> 0]
  /\ lastHistoryId = [p \in Procs |-> NoCursor]
  /\ refreshCount = [p \in Procs |-> 0]
  /\ queries = [p \in Procs |-> <<>>]
  /\ fetchCount = [p \in Procs |-> 0]
  /\ messageIds = [p \in Procs |-> <<>>]
  /\ mi = [p \in Procs |-> 1]
  /\ skipped = [p \in Procs |-> {}]
  /\ emails = [p \in Procs |-> <<>>]
  /\ ei = [p \in Procs |-> 1]
  /\ processedCount = [p \in Procs |-> 0]
  /\ filteredCount = [p \in Procs |-> 0]
  /\ tried = [p \in Procs |-> <<>>]
  /\ sent = [p \in Procs |-> <<>>]
  /\ payload = [p \in Procs |-> NoPayload]
  /\ maxRetries = [p \in Procs |-> DefaultMaxRetries]
  /\ attempt = [p \in Procs |-> 0]
  /\ lastError = [p \in Procs |-> 0]
  /\ posts = [p \in Procs |-> <<>>]
  /\ delays = [p \in Procs |-> <<>>]

Init ==
  /\ GMAIL_STATE = [k \in {StateKey(mb) : mb \in Mailboxes} |-> NoCursor]
  /\ history = [mb \in Mailboxes |-> <<>>]
  /\ ALLOWED_SENDERS \in AllowLists
  /\ received = 0
  /\ pc = [p \in Procs |-> "idle"]
  /\ notification = [p \in Procs |-> [emailAddress |-> "", historyId |-> 0]]
  /\ result = [p \in Procs |-> "none"]
  /\ caught = [p \in Procs |-> ""]
  /\ previous = [p \in Procs |-> NoGap]
  /\ kvReads = [p \in Procs |-> 0]
  /\ kvWrites = [p \in Procs |-> 0]
  /\ lastHistoryId = [p \in Procs |-> NoCursor]
  /\ refreshCount = [p \in Procs |-> 0]
  /\ queries = [p \in Procs |-> <<>>]
  /\ fetchCount = [p \in Procs |-> 0]
  /\ messageIds = [p \in Procs |-> <<>>]
  /\ mi = [p \in Procs |-> 1]
  /\ skipped = [p \in Procs |-> {}]
  /\ emails = [p \in Procs |-> <<>>]
  /\ ei = [p \in Procs |-> 1]
  /\ processedCount = [p \in Procs |-> 0]
  /\ filteredCount = [p \in Procs |-> 0]
  /\ tried = [p \in Procs |-> <<>>]
  /\ sent = [p \in Procs |-> <<>>]
  /\ payload = [p \in Procs |-> NoPayload]
  /\ maxRetries = [p \in Procs |-> DefaultMaxRetries]
  /\ attempt = [p \in Procs |-> 0]
  /\ lastError = [p \in Procs |-> 0]
  /\ posts = [p \in Procs |-> <<>>]
  /\ delays = [p \in Procs |-> <<>>]
  /\ request = [p \in Procs |-> NoRequest]
  /\ response = [p \in Procs |-> NoResponse]
  /\ arg = NoCall
  /\ ret = NoCall

(* --------------------------- the environment -------------------------- *)

\* a change is recorded in the mailbox's history
NewMail(mb) ==
  /\ Len(history[mb]) < MaxHistory
  /\ \E r \in HistoryRecords :
       history' = [history EXCEPT ![mb] = Append(@, r)]
  /\ UNCHANGED <<GMAIL_STATE, ALLOWED_SENDERS, received, httpVars, callVars,
                 pc, notification, outcomeVars, previous, kvReads, kvWrites,
                 resolverVars, loopVars, retryVars>>

\* notifications are handled one at a time: each invocation starts after the
\* one before it has returned (they are the successive uses of the first slot)
OneAtATime(p) == \A q \in Procs : p <= q

\* a fresh invocation of processNotification(n, env), standing at `at`
Start(p, n, at) ==
  /\ notification' = [notification EXCEPT ![p] = n]
  /\ pc' = [pc EXCEPT ![p] = at]
  /\ result' = [result EXCEPT ![p] = "none"]
  /\ caught' = [caught EXCEPT ![p] = ""]
  /\ previous' = [previous EXCEPT ![p] =
                    IF caught[p] = "history" /\ queries[p][Len(queries[p])] # 401
                    THEN [since |-> lastHistoryId[p],
                          upto |-> notification[p].historyId]
                    ELSE NoGap]
  /\ kvReads' = [kvReads EXCEPT ![p] = 0]
  /\ kvWrites' = [kvWrites EXCEPT ![p] = 0]
  /\ lastHistoryId' = [lastHistoryId EXCEPT ![p] = NoCursor]
  /\ refreshCount' = [refreshCount EXCEPT ![p] = 0]
  /\ queries' = [queries EXCEPT ![p] = <<>>]
  /\ fetchCount' = [fetchCount EXCEPT ![p] = 0]
  /\ messageIds' = [messageIds EXCEPT ![p] = <<>>]
  /\ mi' = [mi EXCEPT ![p] = 1]
  /\ skipped' = [skipped EXCEPT ![p] = {}]
  /\ emails' = [emails EXCEPT ![p] = <<>>]
  /\ ei' = [ei EXCEPT ![p] = 1]
  /\ processedCount' = [processedCount EXCEPT ![p] = 0]
  /\ filteredCount' = [filteredCount EXCEPT ![p] = 0]
  /\ tried' = [tried EXCEPT ![p] = <<>>]
  /\ sent' = [sent EXCEPT ![p] = <<>>]
  /\ payload' = [payload EXCEPT ![p] = NoPayload]
  /\ maxRetries' = [maxRetries EXCEPT ![p] = DefaultMaxRetries]
  /\ attempt' = [attempt EXCEPT ![p] = 0]
  /\ lastError' = [lastError EXCEPT ![p] = 0]
  /\ posts' = [posts EXCEPT ![p] = <<>>]
  /\ delays' = [delays EXCEPT ![p] = <<>>]

\* the fetch handler decodes a push and starts processNotification on it;
\* the historyId it carries is one the mailbox has reached
Receive(p) ==
  /\ pc[p] \in {"idle", "done"}
  /\ OneAtATime(p)
  /\ received < MaxNotifs
  /\ \E mb \in Mailboxes : \E c \in 1..Len(history[mb]) :
       Start(p, [emailAddress |-> mb, historyId |-> c], "get")
  /\ received' = received + 1
  /\ UNCHANGED <<GMAIL_STATE, history, ALLOWED_SENDERS, httpVars, callVars>>

(* -------------------------- processNotification ----------------------- *)

Key(p) == StateKey(notification[p].emailAddress)

\* a catch block that throws the error on to the caller
CaughtRethrown(p, call) ==
  /\ pc' = [pc EXCEPT ![p] = "rejected"]
  /\ result' = [result EXCEPT ![p] = "failed"]
  /\ caught' = [caught EXCEPT ![p] = call]

\* the catch block: the error is logged and swallowed
Caught(p, call) ==
  /\ pc' = [pc EXCEPT ![p] = "done"]
  /\ result' = [result EXCEPT ![p] = "failed"]
  /\ caught' = [caught EXCEPT ![p] = call]

\* await env.GMAIL_STATE.get(...) and the test of its result
KvGet(p) ==
  /\ pc[p] = "get"
  /\ lastHistoryId' = [lastHistoryId EXCEPT ![p] = GMAIL_STATE[Key(p)]]
  /\ kvReads' = [kvReads EXCEPT ![p] = @ + 1]
  /\ pc' = [pc EXCEPT ![p] =
              IF IsFirstNotification(GMAIL_STATE[Key(p)])
              THEN "putBaseline"
              ELSE "refresh"]
  /\ UNCHANGED <<envVars, notification, outcomeVars, previous, kvWrites,
                 refreshCount, queries, fetchCount, messageIds, mi, skipped,
                 emails, loopVars, retryVars>>

\* a put that keeps the stored cursor when it is the newer one
PutAndReturnIfNewer(p, how) ==
  /\ GMAIL_STATE' =
       [GMAIL_STATE EXCEPT ![Key(p)] =
          IF @ > notification[p].historyId THEN @ ELSE notification[p].historyId]
  /\ kvWrites' = [kvWrites EXCEPT ![p] = @ + 1]
  /\ pc' = [pc EXCEPT ![p] = "done"]
  /\ result' = [result EXCEPT ![p] = how]
  /\ UNCHANGED <<history, ALLOWED_SENDERS, received, httpVars, callVars,
                 notification, caught, previous, kvReads, resolverVars,
                 loopVars, retryVars>>

\* await env.GMAIL_STATE.put(key, historyId), then return
PutAndReturn(p, how) ==
  /\ GMAIL_STATE' = [GMAIL_STATE EXCEPT ![Key(p)] = notification[p].historyId]
  /\ kvWrites' = [kvWrites EXCEPT ![p] = @ + 1]
  /\ pc' = [pc EXCEPT ![p] = "done"]
  /\ result' = [result EXCEPT ![p] = how]
  /\ UNCHANGED <<history, ALLOWED_SENDERS, received, httpVars, callVars,
                 notification, caught, previous, kvReads, resolverVars,
                 loopVars, retryVars>>

\* first notification: store the baseline without processing
PutBaseline(p) ==
  /\ pc[p] = "putBaseline"
  /\ PutAndReturn(p, "baseline")

\* emails.length === 0: still update the historyId
PutEmpty(p) ==
  /\ pc[p] = "putEmpty"
  /\ PutAndReturn(p, "committed")

\* update after processing all
PutFinal(p) ==
  /\ pc[p] = "putFinal"
  /\ PutAndReturn(p, "committed")

(* ----------------------------- fetchNewEmails ------------------------- *)

\* the cursor stored as soon as the emails are back, the loop left out
AfterResolveSkipsLoop(es) == IF es = <<>> THEN "putEmpty" ELSE "putFinal"

\* what processNotification does with the array fetchNewEmails returns
AfterResolve(es) == IF es = <<>> THEN "putEmpty" ELSE "loop"

\* await refreshAccessToken(...): before the first query, and after a 401
RefreshAccessToken(p) ==
  /\ pc[p] \in {"refresh", "refresh401"}
  /\ refreshCount' = [refreshCount EXCEPT ![p] = @ + 1]
  /\ \E ok \in BOOLEAN :
       IF ok
       THEN /\ pc' = [pc EXCEPT ![p] =
                        IF pc[p] = "refresh" THEN "history" ELSE "historyRetry"]
            /\ UNCHANGED outcomeVars
       ELSE Caught(p, "refresh")
  /\ UNCHANGED <<envVars, notification, previous, kvReads, kvWrites,
                 lastHistoryId, queries, fetchCount, messageIds, mi, skipped,
                 emails, loopVars, retryVars>>

\* the retry taken on any failed query
NeedsTokenRetryOnAnyError(status) == ~ResponseOk(status)

\* 401 Unauthorized on the first query: refresh the token and retry once
NeedsTokenRetry(status) == status = 401

\* a failed query taken for an empty history instead of being thrown
HistoryAnsweredSwallowed(p, status) ==
  LET ids == IF ~ResponseOk(status)
             THEN <<>>
             ELSE CollectMessageIds(
                    HistorySince(history[notification[p].emailAddress],
                                 lastHistoryId[p]))
  IN  /\ messageIds' = [messageIds EXCEPT ![p] = ids]
      /\ emails' = [emails EXCEPT ![p] = <<>>]
      /\ pc' = [pc EXCEPT ![p] =
                  IF ids = <<>> THEN AfterResolve(<<>>) ELSE "fetchMessage"]
      /\ UNCHANGED outcomeVars

\* from `if (!historyResponse.ok)` to the start of the message loop
HistoryAnswered(p, status) ==
  IF ~ResponseOk(status)
  THEN /\ Caught(p, "history")
       /\ UNCHANGED <<messageIds, emails>>
  ELSE LET ids == CollectMessageIds(
                    HistorySince(history[notification[p].emailAddress],
                                 lastHistoryId[p]))
       IN  /\ messageIds' = [messageIds EXCEPT ![p] = ids]
           /\ emails' = [emails EXCEPT ![p] = <<>>]
           /\ pc' = [pc EXCEPT ![p] =
                       IF ids = <<>> THEN AfterResolve(<<>>) ELSE "fetchMessage"]
           /\ UNCHANGED outcomeVars

\* what users/${emailAddress}/history can answer: Gmail has no history to
\* list for a user that is no mailbox
HistoryStatusesOf(emailAddress) ==
  IF emailAddress \in Mailboxes
  THEN HistoryStatuses
  ELSE {status \in HistoryStatuses : ~ResponseOk(status)}

\* the first history.list request
HistoryList(p) ==
  /\ pc[p] = "history"
  /\ \E status \in HistoryStatusesOf(notification[p].emailAddress) :
       /\ queries' = [queries EXCEPT ![p] = Append(@, status)]
       /\ IF NeedsTokenRetry(status)
          THEN /\ pc' = [pc EXCEPT ![p] = "refresh401"]
               /\ UNCHANGED <<outcomeVars, messageIds, emails>>
          ELSE HistoryAnswered(p, status)
  /\ UNCHANGED <<envVars, notification, previous, kvReads, kvWrites,
                 lastHistoryId, refreshCount, fetchCount, mi, skipped,
                 loopVars, retryVars>>

\* the history.list request repeated with the fresh token
HistoryListRetry(p) ==
  /\ pc[p] = "historyRetry"
  /\ \E status \in HistoryStatusesOf(notification[p].emailAddress) :
       /\ queries' = [queries EXCEPT ![p] = Append(@, status)]
       /\ HistoryAnswered(p, status)
  /\ UNCHANGED <<envVars, notification, previous, kvReads, kvWrites,
                 lastHistoryId, refreshCount, fetchCount, mi, skipped,
                 loopVars, retryVars>>

\* one round of the loop over messageIds: the message request, the checks of
\* its response and the parse
FetchMessage(p) ==
  /\ pc[p] = "fetchMessage"
  /\ fetchCount' = [fetchCount EXCEPT ![p] = @ + 1]
  /\ \E outcome \in FetchOutcomes :
       IF outcome = "throws"
       THEN /\ Caught(p, "fetch")
            /\ UNCHANGED <<mi, skipped, emails>>
       ELSE LET es == IF outcome = "ok"
                      THEN Append(emails[p], ParseMessage(messageIds[p][mi[p]]))
                      ELSE emails[p]
            IN  /\ emails' = [emails EXCEPT ![p] = es]
                /\ skipped' = [skipped EXCEPT ![p] =
                                 IF outcome = "ok" THEN @ ELSE @ \cup {mi[p]}]
                /\ mi' = [mi EXCEPT ![p] = @ + 1]
                /\ pc' = [pc EXCEPT ![p] =
                            IF mi[p] < Len(messageIds[p])
                            THEN "fetchMessage"
                            ELSE AfterResolve(es)]
                /\ UNCHANGED outcomeVars
  /\ UNCHANGED <<envVars, notification, previous, kvReads, kvWrites,
                 lastHistoryId, refreshCount, queries, messageIds, loopVars,
                 retryVars>>

(* ------------------- the loop of processNotification ------------------ *)

\* where the loop over emails goes after the email at position i
AfterEmail(p, i) == IF i < Len(emails[p]) THEN "loop" ELSE "putFinal"

\* one round up to the call of sendToOpenClawWithRetry: the sender check,
\* and for an allowed sender the transformation and the call
FilterEmail(p) ==
  /\ pc[p] = "loop"
  /\ LET email == emails[p][ei[p]]
     IN  IF ~isAllowedSender(email.from, ALLOWED_SENDERS)
         THEN /\ filteredCount' = [filteredCount EXCEPT ![p] = @ + 1]
              /\ ei' = [ei EXCEPT ![p] = @ + 1]
              /\ pc' = [pc EXCEPT ![p] = AfterEmail(p, ei[p])]
              /\ UNCHANGED <<tried, retryVars>>
         ELSE /\ payload' = [payload EXCEPT ![p] = transformToOpenClaw(email)]
              /\ tried' = [tried EXCEPT ![p] = Append(@, email.messageId)]
              /\ maxRetries' = [maxRetries EXCEPT ![p] = DefaultMaxRetries]
              /\ attempt' = [attempt EXCEPT ![p] = 0]
              /\ lastError' = [lastError EXCEPT ![p] = 0]
              /\ posts' = [posts EXCEPT ![p] = <<>>]
              /\ delays' = [delays EXCEPT ![p] = <<>>]
              /\ pc' = [pc EXCEPT ![p] = "send"]
              /\ UNCHANGED <<filteredCount, ei>>
  /\ UNCHANGED <<envVars, notification, outcomeVars, previous, kvReads,
                 kvWrites, resolverVars, processedCount, sent>>

\* sendToOpenClawWithRetry returned the response
DeliveryReturned(p) ==
  /\ pc[p] = "returned"
  /\ processedCount' = [processedCount EXCEPT ![p] = @ + 1]
  /\ sent' = [sent EXCEPT ![p] = Append(@, emails[p][ei[p]].messageId)]
  /\ ei' = [ei EXCEPT ![p] = @ + 1]
  /\ pc' = [pc EXCEPT ![p] = AfterEmail(p, ei[p])]
  /\ UNCHANGED <<envVars, notification, outcomeVars, previous, kvReads,
                 kvWrites, resolverVars, filteredCount, tried, retryVars>>

\* sendToOpenClawWithRetry threw: the await sits directly in the try block
DeliveryThrew(p) ==
  /\ pc[p] = "threw"
  /\ Caught(p, "delivery")
  /\ UNCHANGED <<envVars, notification, previous, kvReads, kvWrites,
                 resolverVars, loopVars, retryVars>>

(* ----------------------- sendToOpenClawWithRetry ---------------------- *)

\* one round of the loop: sendToOpenClaw's POST and the catch
SendAttempt(p) ==
  /\ pc[p] = "send"
  /\ RetryLoopContinues(attempt[p], maxRetries[p])
  /\ \E status \in DeliveryStatuses :
       /\ posts' = [posts EXCEPT ![p] = Append(@, status)]
       /\ IF ResponseOk(status)
          THEN /\ pc' = [pc EXCEPT ![p] = "returned"]
               /\ UNCHANGED <<attempt, lastError>>
          ELSE /\ lastError' = [lastError EXCEPT ![p] = status]
               /\ IF DelayFollows(attempt[p], maxRetries[p])
                  THEN /\ pc' = [pc EXCEPT ![p] = "backoff"]
                       /\ UNCHANGED attempt
                  ELSE /\ pc' = [pc EXCEPT ![p] = "send"]
                       /\ attempt' = [attempt EXCEPT ![p] = @ + 1]
  /\ UNCHANGED <<envVars, notification, outcomeVars, previous, kvReads,
                 kvWrites, resolverVars, loopVars, payload, maxRetries,
                 delays>>

\* the setTimeout between two attempts, then attempt++
BackoffWait(p) ==
  /\ pc[p] = "backoff"
  /\ delays' = [delays EXCEPT ![p] = Append(@, DelayMs(attempt[p]))]
  /\ attempt' = [attempt EXCEPT ![p] = @ + 1]
  /\ pc' = [pc EXCEPT ![p] = "send"]
  /\ UNCHANGED <<envVars, notification, outcomeVars, previous, kvReads,
                 kvWrites, resolverVars, loopVars, payload, maxRetries,
                 lastError, posts>>

\* the loop is over: throw lastError || new Error(...)
RetryExhausted(p) ==
  /\ pc[p] = "send"
  /\ ~RetryLoopContinues(attempt[p], maxRetries[p])
  /\ pc' = [pc EXCEPT ![p] = "threw"]
  /\ UNCHANGED <<envVars, notification, outcomeVars, previous, kvReads,
                 kvWrites, resolverVars, loopVars, retryVars>>

(* --------------------------- specifications --------------------------- *)

Next ==
  \/ \E mb \in Mailboxes : NewMail(mb)
  \/ \E p \in Procs :
       \/ Receive(p)
       \/ KvGet(p)
       \/ PutBaseline(p)
       \/ RefreshAccessToken(p)
       \/ HistoryList(p)
       \/ HistoryListRetry(p)
       \/ FetchMessage(p)
       \/ PutEmpty(p)
       \/ FilterEmail(p)
       \/ SendAttempt(p)
       \/ RetryExhausted(p)
       \/ DeliveryReturned(p)
       \/ DeliveryThrew(p)
       \/ PutFinal(p)

\* notifications of one mailbox handled one at a time
Spec == Init /\ [][Next]_vars

(* sendToOpenClawWithRetry called on its own, with any maxRetries *)

InitRetry ==
  /\ GMAIL_STATE = [k \in {StateKey(mb) : mb \in Mailboxes} |-> NoCursor]
  /\ history = [mb \in Mailboxes |-> <<>>]
  /\ ALLOWED_SENDERS = <<>>
  /\ received = 0
  /\ \E caller \in Procs :
       /\ \A q \in Procs : caller <= q
       /\ pc = [p \in Procs |-> IF p = caller THEN "send" ELSE "idle"]
       /\ \E limit \in 0..MaxRetriesBound :
            maxRetries =
              [p \in Procs |-> IF p = caller THEN limit ELSE DefaultMaxRetries]
       /\ \E m \in MsgIds :
            /\ emails =
                 [p \in Procs |-> IF p = caller THEN <<ParseMessage(m)>> ELSE <<>>]
            /\ tried = [p \in Procs |-> IF p = caller THEN <<m>> ELSE <<>>]
            /\ payload =
                 [p \in Procs |-> IF p = caller
                                  THEN transformToOpenClaw(ParseMessage(m))
                                  ELSE NoPayload]
  /\ notification = [p \in Procs |-> [emailAddress |-> "", historyId |-> 0]]
  /\ result = [p \in Procs |-> "none"]
  /\ caught = [p \in Procs |-> ""]
  /\ previous = [p \in Procs |-> NoGap]
  /\ kvReads = [p \in Procs |-> 0]
  /\ kvWrites = [p \in Procs |-> 0]
  /\ lastHistoryId = [p \in Procs |-> NoCursor]
  /\ refreshCount = [p \in Procs |-> 0]
  /\ queries = [p \in Procs |-> <<>>]
  /\ fetchCount = [p \in Procs |-> 0]
  /\ messageIds = [p \in Procs |-> <<>>]
  /\ mi = [p \in Procs |-> 1]
  /\ skipped = [p \in Procs |-> {}]
  /\ ei = [p \in Procs |-> 1]
  /\ processedCount = [p \in Procs |-> 0]
  /\ filteredCount = [p \in Procs |-> 0]
  /\ sent = [p \in Procs |-> <<>>]
  /\ attempt = [p \in Procs |-> 0]
  /\ lastError = [p \in Procs |-> 0]
  /\ posts = [p \in Procs |-> <<>>]
  /\ delays = [p \in Procs |-> <<>>]
  /\ request = [p \in Procs |-> NoRequest]
  /\ response = [p \in Procs |-> NoResponse]
  /\ arg = NoCall
  /\ ret = NoCall

NextRetry ==
  \E p \in Procs :
    \/ SendAttempt(p)
    \/ BackoffWait(p)
    \/ RetryExhausted(p)

SpecRetry == InitRetry /\ [][NextRetry]_vars

(* --------------------------- the fetch handler ------------------------ *)

\* what `${emailAddress}` gives when the decoded JSON has no such field
Undefined == "undefined"

Methods == {"GET", "POST"}

Pathnames == {"/health", "/webhook/gmail", "/webhook/outlook", "/"}

\* A request body, described by how far the handler's decoding gets with it:
\*   json     request.json() parses it
\*   message  the parsed payload has a `message` object
\*   data     message.data: "absent", "garbage" (not base64) or "base64"
\*   text     what atob(data) gives: "notJson", "null" or "object"
\*   emailAddress, historyId  the fields of that object, Undefined / 0 for
\*            a field the object lacks
Envelope(json, message, data, text, emailAddress, historyId) ==
  [json |-> json, message |-> message, data |-> data, text |-> text,
   emailAddress |-> emailAddress, historyId |-> historyId]

\* bodies that stop the decoding at each of its steps, an object without
\* emailAddress, and the well-formed notification {emailAddress: mb,
\* historyId: c}
Envelopes(mb, c) ==
  { Envelope(FALSE, FALSE, "absent", "notJson", Undefined, 0),
    Envelope(TRUE, FALSE, "absent", "notJson", Undefined, 0),
    Envelope(TRUE, TRUE, "absent", "notJson", Undefined, 0),
    Envelope(TRUE, TRUE, "garbage", "notJson", Undefined, 0),
    Envelope(TRUE, TRUE, "base64", "notJson", Undefined, 0),
    Envelope(TRUE, TRUE, "base64", "null", Undefined, 0),
    Envelope(TRUE, TRUE, "base64", "object", Undefined, c),
    Envelope(TRUE, TRUE, "base64", "object", mb, c) }

\* atob(data) throws on what is not base64; atob(undefined) is
\* atob("undefined"), nine characters, which is not base64 either
AtobThrows(body) == body.data # "base64"

JsonParseThrows(body) == body.text = "notJson"

\* the try block of the webhook branch up to the call of processNotification:
\* request.json(), payload.message.data, decodeNotification
DecodeThrows(body) ==
  \/ ~body.json
  \/ ~body.message
  \/ AtobThrows(body)
  \/ JsonParseThrows(body)

\* decodeNotification: JSON.parse(atob(data)), nothing checked
decodeNotification(body) ==
  [emailAddress |-> body.emailAddress, historyId |-> body.historyId]

IsHealth(req) == req.pathname = "/health"

\* a route that takes any /webhook/<source> path
IsWebhookAnySource(req) ==
  req.pathname \in {"/webhook/gmail", "/webhook/outlook"} /\ req.method = "POST"

IsWebhook(req) == req.pathname = "/webhook/gmail" /\ req.method = "POST"

\* the Response of fetch(request, env, ctx)
Respond(req) ==
  IF IsHealth(req) THEN [status |-> 200, body |-> "OK"]
  ELSE IF IsWebhook(req)
       THEN IF DecodeThrows(req.body)
            THEN [status |-> 200, body |-> "Error processing webhook"]
            ELSE [status |-> 200, body |-> "OK"]
       ELSE [status |-> 404, body |-> "Not Found"]

\* the requests a client can make once mailbox mb has reached historyId c;
\* the handler reads the body on the webhook route only
Requests(mb, c) ==
  { [method |-> method, pathname |-> pathname, body |-> NoRequest.body] :
      method \in Methods, pathname \in Pathnames }
  \cup
  { [method |-> "POST", pathname |-> pathname, body |-> body] :
      pathname \in {"/webhook/gmail"}, body \in Envelopes(mb, c) }

\* no invocation of processNotification for this request
NotStarted == [emailAddress |-> "", historyId |-> 0]

\* The fetch handler on one request, each request in a slot of its own.  On a
\* push that decodes it hands processNotification to ctx.waitUntil and answers
\* at once; the invocation runs on through the actions of processNotification.
\* JSON `null` decodes without error and processNotification's destructuring
\* (line 45, outside its try) rejects the promise.
fetch(p) ==
  /\ pc[p] \in {"idle", "done", "rejected"}
  /\ OneAtATime(p)
  /\ received < MaxNotifs
  /\ \E mb \in Mailboxes : \E c \in 1..Len(history[mb]) :
     \E req \in Requests(mb, c) :
       /\ request' = [request EXCEPT ![p] = req]
       /\ response' = [response EXCEPT ![p] = Respond(req)]
       /\ IF IsHealth(req) \/ ~IsWebhook(req) \/ DecodeThrows(req.body)
          THEN Start(p, NotStarted, "idle")
          ELSE IF req.body.text = "null"
               THEN Start(p, NotStarted, "rejected")
               ELSE Start(p, decodeNotification(req.body), "get")
  /\ received' = received + 1
  /\ UNCHANGED <<GMAIL_STATE, history, ALLOWED_SENDERS, callVars>>

\* a mailbox whose history has two records when the pushes start
InitHttp ==
  /\ GMAIL_STATE =
       [k \in {StateKey(mb) : mb \in Mailboxes \cup {Undefined}} |-> NoCursor]
  /\ history \in [Mailboxes -> [1..2 -> HistoryRecords]]
  /\ ALLOWED_SENDERS \in AllowLists
  /\ received = 0
  /\ request = [p \in Procs |-> NoRequest]
  /\ response = [p \in Procs |-> NoResponse]
  /\ arg = NoCall
  /\ ret = NoCall
  /\ Locals

NextHttp ==
  \E p \in Procs :
       \/ fetch(p)
       \/ KvGet(p)
       \/ PutBaseline(p)
       \/ RefreshAccessToken(p)
       \/ HistoryList(p)
       \/ HistoryListRetry(p)
       \/ FetchMessage(p)
       \/ PutEmpty(p)
       \/ FilterEmail(p)
       \/ SendAttempt(p)
       \/ RetryExhausted(p)
       \/ DeliveryReturned(p)
       \/ DeliveryThrew(p)
       \/ PutFinal(p)

\* pushes arriving over HTTP, handled one at a time
SpecHttp == InitHttp /\ [][NextHttp]_vars

(* ----------------------- concurrent notifications --------------------- *)

\* ctx.waitUntil lets an invocation run on after the response: a push that
\* arrives meanwhile starts another one beside it.  The second slot comes
\* into use once the first has been used.
ReceiveConcurrently(p) ==
  /\ pc[p] \in {"idle", "done"}
  /\ \A q \in Procs : q < p => pc[q] # "idle"
  /\ received < MaxNotifs
  /\ \E mb \in Mailboxes : \E c \in 1..Len(history[mb]) :
       Start(p, [emailAddress |-> mb, historyId |-> c], "get")
  /\ received' = received + 1
  /\ UNCHANGED <<GMAIL_STATE, history, ALLOWED_SENDERS, httpVars, callVars>>

\* three messages have come in, one after the other, when the pushes start
ThreeAdded ==
  [i \in 1..3 |->
     [messagesAdded |-> <<IF i = 2 THEN "m2" ELSE "m1">>,
      messagesDeleted |-> <<>>, labelsAdded |-> <<>>]]

InitConc ==
  /\ GMAIL_STATE = [k \in {StateKey(mb) : mb \in Mailboxes} |-> NoCursor]
  /\ history = [mb \in Mailboxes |-> ThreeAdded]
  /\ ALLOWED_SENDERS = <<>>
  /\ received = 0
  /\ request = [p \in Procs |-> NoRequest]
  /\ response = [p \in Procs |-> NoResponse]
  /\ arg = NoCall
  /\ ret = NoCall
  /\ Locals

NextConc ==
  \E p \in Procs :
    \/ ReceiveConcurrently(p)
    \/ KvGet(p)
    \/ PutBaseline(p)
    \/ RefreshAccessToken(p)
    \/ HistoryList(p)
    \/ HistoryListRetry(p)
    \/ FetchMessage(p)
    \/ PutEmpty(p)
    \/ FilterEmail(p)
    \/ SendAttempt(p)
    \/ RetryExhausted(p)
    \/ DeliveryReturned(p)
    \/ DeliveryThrew(p)
    \/ PutFinal(p)

\* notifications of one mailbox handled as they come, two at a time at most
SpecConc == InitConc /\ [][NextConc]_vars

(* ------------------ notifications in turn, two slots ------------------ *)

\* notifications handled one at a time, each invocation in the slot the
\* one before it did not use, so that two successive invocations can be
\* looked at side by side
ReceiveInTurn(p) ==
  /\ \A q \in Procs : pc[q] \in {"idle", "done"}
  /\ p = (received % 2) + 1
  /\ received < MaxNotifs
  /\ \E mb \in Mailboxes : \E c \in 1..Len(history[mb]) :
       Start(p, [emailAddress |-> mb, historyId |-> c], "get")
  /\ received' = received + 1
  /\ UNCHANGED <<GMAIL_STATE, history, ALLOWED_SENDERS, httpVars, callVars>>

\* a mailbox whose history has two records when the pushes start
InitTurns ==
  /\ GMAIL_STATE = [k \in {StateKey(mb) : mb \in Mailboxes} |-> NoCursor]
  /\ history \in [Mailboxes -> [1..2 -> HistoryRecords]]
  /\ ALLOWED_SENDERS \in AllowLists
  /\ received = 0
  /\ request = [p \in Procs |-> NoRequest]
  /\ response = [p \in Procs |-> NoResponse]
  /\ arg = NoCall
  /\ ret = NoCall
  /\ Locals

NextTurns ==
  \E p \in Procs :
    \/ ReceiveInTurn(p)
    \/ KvGet(p)
    \/ PutBaseline(p)
    \/ RefreshAccessToken(p)
    \/ HistoryList(p)
    \/ HistoryListRetry(p)
    \/ FetchMessage(p)
    \/ PutEmpty(p)
    \/ FilterEmail(p)
    \/ SendAttempt(p)
    \/ RetryExhausted(p)
    \/ DeliveryReturned(p)
    \/ DeliveryThrew(p)
    \/ PutFinal(p)

\* notifications of one mailbox handled one at a time, in alternate slots
SpecTurns == InitTurns /\ [][NextTurns]_vars

(* ------------------------- a failing Cursor Store --------------------- *)

\* await env.GMAIL_STATE.get(...) throws
KvGetThrows(p) ==
  /\ pc[p] = "get"
  /\ kvReads' = [kvReads EXCEPT ![p] = @ + 1]
  /\ Caught(p, "get")
  /\ UNCHANGED <<envVars, notification, previous, kvWrites, resolverVars,
                 loopVars, retryVars>>

\* await env.GMAIL_STATE.put(...) throws, at any of the three puts
PutThrows(p) ==
  /\ pc[p] \in {"putBaseline", "putEmpty", "putFinal"}
  /\ kvWrites' = [kvWrites EXCEPT ![p] = @ + 1]
  /\ Caught(p, "put")
  /\ UNCHANGED <<envVars, notification, previous, kvReads, resolverVars,
                 loopVars, retryVars>>

\* one step of the invocation in slot p
Step(p) ==
  \/ KvGet(p)
  \/ KvGetThrows(p)
  \/ PutBaseline(p)
  \/ RefreshAccessToken(p)
  \/ HistoryList(p)
  \/ HistoryListRetry(p)
  \/ FetchMessage(p)
  \/ PutEmpty(p)
  \/ FilterEmail(p)
  \/ SendAttempt(p)
  \/ RetryExhausted(p)
  \/ DeliveryReturned(p)
  \/ DeliveryThrew(p)
  \/ PutFinal(p)
  \/ PutThrows(p)

\* a mailbox whose history has two records when the pushes start
InitFaults ==
  /\ GMAIL_STATE = [k \in {StateKey(mb) : mb \in Mailboxes} |-> NoCursor]
  /\ history \in [Mailboxes -> [1..2 -> HistoryRecords]]
  /\ ALLOWED_SENDERS \in AllowLists
  /\ received = 0
  /\ request = [p \in Procs |-> NoRequest]
  /\ response = [p \in Procs |-> NoResponse]
  /\ arg = NoCall
  /\ ret = NoCall
  /\ Locals

NextFaults ==
  \E p \in Procs :
    \/ Receive(p)
    \/ Step(p)

\* notifications handled one at a time, every external call of
\* processNotification able to fail
SpecFaults == InitFaults /\ [][NextFaults]_vars

(* ------------------------- a history in pages ------------------------- *)

\* the `history` of a GmailHistoryResponse that carries a nextPageToken: the
\* first records of the list, more of them left on the pages that follow
FirstPages(records) ==
  {SubSeq(records, 1, n) : n \in 1..(Len(records) - 1)}

\* the history.list request answered 200 with a first page: fetchNewEmails
\* reads historyData.history and makes no request for the next page
HistoryListFirstPage(p) ==
  /\ pc[p] = "history"
  /\ \E page \in FirstPages(HistorySince(history[notification[p].emailAddress],
                                         lastHistoryId[p])) :
       LET ids == CollectMessageIds(page)
       IN  /\ queries' = [queries EXCEPT ![p] = Append(@, 200)]
           /\ messageIds' = [messageIds EXCEPT ![p] = ids]
           /\ emails' = [emails EXCEPT ![p] = <<>>]
           /\ pc' = [pc EXCEPT ![p] =
                       IF ids = <<>> THEN AfterResolve(<<>>) ELSE "fetchMessage"]
  /\ UNCHANGED <<envVars, notification, outcomeVars, previous, kvReads,
                 kvWrites, lastHistoryId, refreshCount, fetchCount, mi,
                 skipped, loopVars, retryVars>>

NextPaged ==
  \/ NextTurns
  \/ \E p \in Procs : HistoryListFirstPage(p)

\* notifications handled one at a time on a mailbox of three records, the
\* history answered whole or by its first page
SpecPaged == InitConc /\ [][NextPaged]_vars

(* ---------------------- functions called on their own ----------------- *)

\* the strings over an alphabet, up to a length
Strings(alphabet, n) == UNION {[1..k -> alphabet] : k \in 0..n}

\* characters a From header value is made of here
FromAlphabet == {"a", "B", "<", ">", " "}

\* characters an ALLOWED_SENDERS value is made of here
AllowAlphabet == {"a", "B", ",", " "}

InitFilter ==
  /\ GMAIL_STATE = [k \in {StateKey(mb) : mb \in Mailboxes} |-> NoCursor]
  /\ history = [mb \in Mailboxes |-> <<>>]
  /\ ALLOWED_SENDERS = <<>>
  /\ received = 0
  /\ request = [p \in Procs |-> NoRequest]
  /\ response = [p \in Procs |-> NoResponse]
  /\ \E f \in Strings(FromAlphabet, MaxStringLen) :
     \E a \in Strings(AllowAlphabet, MaxStringLen) :
       arg = [fn |-> "isAllowedSender", fromAddress |-> f, allowedSenders |-> a]
  /\ ret = NoCall
  /\ Locals

\* isAllowedSender(fromAddress, allowedSenders) returns
CallIsAllowedSender ==
  /\ arg.fn = "isAllowedSender"
  /\ ret = NoCall
  /\ ret' = [fn |-> arg.fn,
             value |-> isAllowedSender(arg.fromAddress, arg.allowedSenders)]
  /\ UNCHANGED <<GMAIL_STATE, history, ALLOWED_SENDERS, received, httpVars,
                 arg, pc, notification, outcomeVars, previous, kvReads,
                 kvWrites, resolverVars, loopVars, retryVars>>

NextFilter == CallIsAllowedSender

\* isAllowedSender called on any from value and any allow-list
SpecFilter == InitFilter /\ [][NextFilter]_vars

\* The body of a message as UTF-16 code units: "x" stands for a character
\* of the Basic Multilingual Plane, <<"H", "L">> for the high and the low
\* surrogate of one character outside it (an emoji).

\* the UTF-16 code units of n characters, the one at position astral (if
\* any) lying outside the Basic Multilingual Plane
Utf16(n, astral) ==
  [i \in 1..(IF astral \in 1..n THEN n + 1 ELSE n) |->
     IF astral \in 1..n /\ i = astral THEN "H"
     ELSE IF astral \in 1..n /\ i = astral + 1 THEN "L"
     ELSE "x"]

\* numbers of characters of the bodies tried: few, and about SnippetLength
BodyLengths ==
  (0..MaxBodyExtra)
    \cup ((SnippetLength - MaxBodyExtra)..(SnippetLength + MaxBodyExtra))

InitSnippet ==
  /\ GMAIL_STATE = [k \in {StateKey(mb) : mb \in Mailboxes} |-> NoCursor]
  /\ history = [mb \in Mailboxes |-> <<>>]
  /\ ALLOWED_SENDERS = <<>>
  /\ received = 0
  /\ request = [p \in Procs |-> NoRequest]
  /\ response = [p \in Procs |-> NoResponse]
  /\ \E n \in BodyLengths : \E astral \in 0..n :
       arg = [fn |-> "ParsedEmail", body |-> Utf16(n, astral)]
  /\ ret = NoCall
  /\ Locals

\* the ParsedEmail built from a parsed body
CallParsedEmail ==
  /\ arg.fn = "ParsedEmail"
  /\ ret = NoCall
  /\ ret' = [fn |-> arg.fn,
             value |-> ParsedEmail("m1", FromOf("m1"), SubjectOf("m1"),
                                   arg.body)]
  /\ UNCHANGED <<GMAIL_STATE, history, ALLOWED_SENDERS, received, httpVars,
                 arg, pc, notification, outcomeVars, previous, kvReads,
                 kvWrites, resolverVars, loopVars, retryVars>>

NextSnippet == CallParsedEmail

\* the snippet taken from any body
SpecSnippet == InitSnippet /\ [][NextSnippet]_vars

\* the ParsedEmail values tried on transformToOpenClaw; the snippet is any
\* string, whatever the body
ParsedEmails ==
  [messageId : {"m1"},
   from : Strings({"a", "@"}, MaxFieldLen),
   subject : Strings({"s"}, MaxFieldLen),
   body : Strings({"b"}, MaxFieldLen),
   snippet : Strings({"c"}, MaxFieldLen)]

InitTransform ==
  /\ GMAIL_STATE = [k \in {StateKey(mb) : mb \in Mailboxes} |-> NoCursor]
  /\ history = [mb \in Mailboxes |-> <<>>]
  /\ ALLOWED_SENDERS = <<>>
  /\ received = 0
  /\ request = [p \in Procs |-> NoRequest]
  /\ response = [p \in Procs |-> NoResponse]
  /\ \E email \in ParsedEmails :
       arg = [fn |-> "transformToOpenClaw", email |-> email]
  /\ ret = NoCall
  /\ Locals

\* transformToOpenClaw(email) returns
CallTransformToOpenClaw ==
  /\ arg.fn = "transformToOpenClaw"
  /\ ret = NoCall
  /\ ret' = [fn |-> arg.fn, value |-> transformToOpenClaw(arg.email)]
  /\ UNCHANGED <<GMAIL_STATE, history, ALLOWED_SENDERS, received, httpVars,
                 arg, pc, notification, outcomeVars, previous, kvReads,
                 kvWrites, resolverVars, loopVars, retryVars>>

NextTransform == CallTransformToOpenClaw

\* transformToOpenClaw called on any ParsedEmail
SpecTransform == InitTransform /\ [][NextTransform]_vars

(* ------------------------------ properties --------------------------- *)

Last(q) == q[Len(q)]

IsPrefix(a, b) == Len(a) <= Len(b) /\ SubSeq(b, 1, Len(a)) = a

Is2xx(status) == 200 <= status /\ status <= 299

\* the ids of a sequence of ids whose sender passes the Sender Filter
RECURSIVE AllowedOf(_)
AllowedOf(ids) ==
  IF ids = <<>>
  THEN <<>>
  ELSE (IF isAllowedSender(FromOf(Head(ids)), ALLOWED_SENDERS)
        THEN <<Head(ids)>>
        ELSE <<>>) \o AllowedOf(Tail(ids))

\* the ids of the "message added" entries with history id in (c1, c2]
AddedBetween(feed, c1, c2) ==
  LET RECURSIVE Walk(_)
      Walk(i) == IF i > c2 \/ i > Len(feed)
                 THEN <<>>
                 ELSE feed[i].messagesAdded \o Walk(i + 1)
  IN  Walk(c1 + 1)

\* the ids of the emails an invocation resolved
EmailIds(p) == [i \in 1..Len(emails[p]) |-> emails[p][i].messageId]

\* the ids at the positions of messageIds[p] outside `bad`
RECURSIVE Keep(_, _, _)
Keep(ids, i, bad) ==
  IF i > Len(ids)
  THEN <<>>
  ELSE (IF i \in bad THEN <<>> ELSE <<ids[i]>>) \o Keep(ids, i + 1, bad)

Mailbox(p) == notification[p].emailAddress

\* C1 (as claimed): a notification with cursor C2 processed against stored
\* cursor C1, with no call failing and no message skipped, delivers exactly
\* the added entries with history id in (C1, C2] that pass the Sender Filter,
\* in feed order, and leaves C2 stored.
C1_DiffProperty ==
  \A p \in Procs :
    (pc[p] = "done" /\ result[p] = "committed" /\ skipped[p] = {})
      => /\ sent[p] = AllowedOf(AddedBetween(history[Mailbox(p)],
                                             lastHistoryId[p],
                                             notification[p].historyId))
         /\ GMAIL_STATE[Key(p)] = notification[p].historyId

\* C2: a notification that finds no stored cursor makes no token refresh, no
\* history query, no message fetch and no delivery, and ends with its own
\* historyId stored by a single put.
C2_Baseline ==
  \A p \in Procs :
    (kvReads[p] = 1 /\ lastHistoryId[p] = NoCursor)
      => /\ pc[p] \in {"putBaseline", "done"}
         /\ refreshCount[p] = 0
         /\ queries[p] = <<>>
         /\ fetchCount[p] = 0
         /\ tried[p] = <<>> /\ sent[p] = <<>> /\ posts[p] = <<>>
         /\ pc[p] = "done"
              => /\ result[p] = "baseline"
                 /\ kvWrites[p] = 1
                 /\ GMAIL_STATE[Key(p)] = notification[p].historyId

C2_Witness ==
  \E p \in Procs :
    /\ pc[p] = "done" /\ result[p] = "baseline"
    /\ notification[p].historyId = 2
    /\ GMAIL_STATE[Key(p)] = 2

\* C3 (as claimed): when a delivery has failed for good, every resolved
\* message that passes the Sender Filter has still had its delivery attempted
\* by the time the invocation ends.
C3_LoopNotAborted ==
  \A p \in Procs :
    (pc[p] = "done" /\ caught[p] = "delivery")
      => tried[p] = AllowedOf(EmailIds(p))

\* C4 (as claimed): an invocation that found a stored cursor and ends without
\* a failed token refresh or history query has stored its notification's
\* historyId; stated for the outcomes the claim lists (a delivery whose
\* retries were exhausted, skipped fetches, filtered or empty batches).
C4_CursorAdvance ==
  \A p \in Procs :
    (pc[p] = "done" /\ lastHistoryId[p] # NoCursor
       /\ caught[p] \notin {"refresh", "history", "fetch"})
      => GMAIL_STATE[Key(p)] = notification[p].historyId

\* C5 (as claimed): no step makes a stored cursor smaller.
C5_CursorMonotone ==
  [][\A k \in DOMAIN GMAIL_STATE : GMAIL_STATE'[k] >= GMAIL_STATE[k]]_vars

\* C6 (as claimed): when the fetch of some message failed, the invocation
\* ends with every other message that passes the Sender Filter delivered, in
\* order, and with its notification's historyId stored.
C6_PartialFailure ==
  \A p \in Procs :
    (pc[p] = "done" /\ (skipped[p] # {} \/ caught[p] = "fetch"))
      => LET bad == skipped[p] \cup (IF caught[p] = "fetch" THEN {mi[p]} ELSE {})
         IN  /\ sent[p] = AllowedOf(Keep(messageIds[p], 1, bad))
             /\ GMAIL_STATE[Key(p)] = notification[p].historyId

\* C7: a call of sendToOpenClawWithRetry makes at most maxRetries POSTs, makes
\* none after a 2xx answer, returns exactly when its last POST was answered
\* 2xx, and throws, after exactly maxRetries POSTs, when all of them failed.
C7_RetryBound ==
  \A p \in Procs :
    /\ Len(posts[p]) <= maxRetries[p]
    /\ \A i \in 1..(Len(posts[p]) - 1) : ~Is2xx(posts[p][i])
    /\ pc[p] = "returned" <=> (posts[p] # <<>> /\ Is2xx(Last(posts[p])))
    /\ pc[p] = "threw"
         => /\ Len(posts[p]) = maxRetries[p]
            /\ \A i \in 1..Len(posts[p]) : ~Is2xx(posts[p][i])
    /\ (Len(posts[p]) = maxRetries[p]
          /\ \A i \in 1..Len(posts[p]) : ~Is2xx(posts[p][i]))
         => /\ pc[p] \in {"send", "threw"}
            /\ pc[p] = "send" => attempt[p] = maxRetries[p]

C7_Witness ==
  \E p \in Procs :
    /\ pc[p] = "threw"
    /\ maxRetries[p] = 3
    /\ Len(posts[p]) = 3

C9_AuthRetry ==
  \A p \in Procs :
    /\ refreshCount[p] <= 2
    /\ Len(queries[p]) <= 2
    /\ Len(queries[p]) = 2 => queries[p][1] = 401 /\ refreshCount[p] = 2
    /\ refreshCount[p] = 2 => queries[p] # <<>> /\ queries[p][1] = 401
    /\ (queries[p] # <<>> /\ queries[p][1] = 401)
         => \/ pc[p] = "refresh401" /\ refreshCount[p] = 1
            \/ refreshCount[p] = 2
                 /\ \/ Len(queries[p]) = 2
                    \/ pc[p] = "historyRetry"
                    \/ pc[p] = "done" /\ caught[p] = "refresh"
    /\ (Len(queries[p]) = 2 /\ ~Is2xx(queries[p][2]))
         => /\ pc[p] = "done" /\ result[p] = "failed" /\ caught[p] = "history"
            /\ fetchCount[p] = 0
            /\ tried[p] = <<>> /\ sent[p] = <<>>
            /\ kvWrites[p] = 0

C9_Witness ==
  \E p \in Procs :
    /\ pc[p] = "done"
    /\ queries[p] = <<401, 401>>
    /\ refreshCount[p] = 2

\* the added messages a failed history query left undelivered
Gap(p) ==
  AddedBetween(history[Mailbox(p)], previous[p].since, previous[p].upto)

\* C10: a history query that fails other than by 401 ends the notification
\* with no fetch, no delivery and the stored cursor as it was read; the next
\* notification then reads that same cursor, its resolution lists every
\* message added in the gap, and when it commits with nothing skipped or
\* filtered it has delivered them.
C10_GapRecovered ==
  \A p \in Procs :
    /\ (queries[p] # <<>> /\ ~Is2xx(Last(queries[p])) /\ Last(queries[p]) # 401)
         => /\ pc[p] = "done" /\ result[p] = "failed"
            /\ fetchCount[p] = 0
            /\ tried[p] = <<>> /\ sent[p] = <<>>
            /\ kvWrites[p] = 0
            /\ GMAIL_STATE[Key(p)] = lastHistoryId[p]
    /\ previous[p] # NoGap
         => /\ kvReads[p] = 1 => lastHistoryId[p] = previous[p].since
            /\ (queries[p] # <<>> /\ Is2xx(Last(queries[p])))
                 => IsPrefix(Gap(p), messageIds[p])
            /\ (result[p] = "committed" /\ skipped[p] = {}
                  /\ filteredCount[p] = 0)
                 => IsPrefix(Gap(p), sent[p])

C10_Witness ==
  \E p \in Procs :
    /\ previous[p] # NoGap
    /\ Len(Gap(p)) = 2
    /\ result[p] = "committed"
    /\ sent[p] = Gap(p)

(* ------------------------------ HTTP surface -------------------------- *)

IsPostTo(p, pathname) ==
  request[p].method = "POST" /\ request[p].pathname = pathname

\* the push of request p does not decode into {emailAddress, historyId}
Undecodable(p) ==
  \/ DecodeThrows(request[p].body)
  \/ request[p].body.text = "null"
  \/ request[p].body.emailAddress = Undefined

\* C11 as stated: every POST to a /webhook/<source> path, whatever the source,
\* is answered with status 200.
C11_AnySourceAnswered200 ==
  \A p \in Procs :
    IsPostTo(p, "/webhook/gmail") \/ IsPostTo(p, "/webhook/outlook")
      => response[p].status = 200

\* C11, amended: a POST to /webhook/gmail is answered 200 whether the envelope
\* decodes or not, from the moment the background processing starts and
\* whatever it does afterwards; any request to /health is answered 200; every
\* other request, a POST to another /webhook/<source> path included, is
\* answered 404.
C11_HttpSurface ==
  \A p \in Procs :
    request[p] # NoRequest =>
      /\ IsPostTo(p, "/webhook/gmail") => response[p].status = 200
      /\ request[p].pathname = "/health" => response[p].status = 200
      /\ ~IsPostTo(p, "/webhook/gmail") /\ request[p].pathname # "/health"
           => response[p].status = 404
      /\ pc[p] \notin {"idle", "rejected"} => IsPostTo(p, "/webhook/gmail")

\* a push answered 200 whose background processing later failed
C11_Witness ==
  \E p \in Procs :
    /\ IsPostTo(p, "/webhook/gmail")
    /\ response[p].status = 200
    /\ result[p] = "failed"
    /\ caught[p] = "delivery"

\* C12: when the envelope of a push does not decode into {emailAddress,
\* historyId} the handler stops: it neither reads nor writes the Cursor Store
\* and issues no token refresh, change query, message fetch or delivery.
C12_DecodeFailureNoEffects ==
  \A p \in Procs :
    IsPostTo(p, "/webhook/gmail") /\ Undecodable(p) =>
      /\ kvReads[p] = 0
      /\ kvWrites[p] = 0
      /\ refreshCount[p] = 0
      /\ queries[p] = <<>>
      /\ fetchCount[p] = 0
      /\ tried[p] = <<>>
      /\ GMAIL_STATE[StateKey(Undefined)] = NoCursor

(* ------------------------------ cursor race --------------------------- *)

\* C13: the Cursor Store is written without compare-and-swap: every put
\* stores the historyId of the notification being handled, whatever the store
\* holds by then; so two notifications of one mailbox handled concurrently
\* can both finish with the older one's cursor stored (C13_Witness).
C13_CursorRace ==
  [][\A p \in Procs :
       kvWrites'[p] = kvWrites[p] + 1
         => GMAIL_STATE'[Key(p)] = notification[p].historyId]_vars

\* both invocations read the same cursor, both committed, and the store holds
\* the older notification's historyId: the newer one's advance is lost
C13_Witness ==
  \E p, q \in Procs :
    /\ p # q
    /\ Key(p) = Key(q)
    /\ result[p] = "committed" /\ result[q] = "committed"
    /\ pc[p] = "done" /\ pc[q] = "done"
    /\ lastHistoryId[p] = lastHistoryId[q]
    /\ lastHistoryId[p] # NoCursor
    /\ lastHistoryId[p] < notification[p].historyId
    /\ notification[p].historyId < notification[q].historyId
    /\ GMAIL_STATE[Key(p)] = notification[p].historyId

(* --------------------------- duplicate fan-out ------------------------ *)

\* the message ids a sequence of ids holds
Ids(q) == {q[i] : i \in 1..Len(q)}

\* every message of the mailbox is listed as added by one history record only
AddedOnce(feed) ==
  \A i, j \in 1..Len(feed) :
    i # j => Ids(feed[i].messagesAdded) \cap Ids(feed[j].messagesAdded) = {}

\* C14: over notifications processed one at a time, re-deliveries and
\* notifications that arrive while newer mail exists included, no message is
\* delivered downstream more than once (here: by two successive invocations).
C14_NoDuplicateFanOut ==
  \A p, q \in Procs :
    /\ p # q
    /\ pc[p] # "idle" /\ pc[q] # "idle"
    /\ Key(p) = Key(q)
    /\ AddedOnce(history[notification[p].emailAddress])
    => Ids(sent[p]) \cap Ids(sent[q]) = {}

(* ------------------------------ termination --------------------------- *)

InFlight(p) == pc[p] \notin {"idle", "done", "rejected"}

\* steps one email of the loop can take: the sender check, the attempts with
\* their waits, the end of the retry loop and the return or throw
PerEmail == 2 * DefaultMaxRetries + 3

\* steps the loop over emails can take from position e of n emails, and the
\* final put
LoopLeft(n, e) == (n - e + 1) * PerEmail + 1

\* steps left to the current call of sendToOpenClawWithRetry
SendLeft(p) == 2 * (maxRetries[p] - attempt[p]) + 1

\* steps the message loop of fetchNewEmails and all that follows can take
FetchLeft(p) ==
  LET todo == Len(messageIds[p]) - mi[p] + 1
  IN  todo + LoopLeft(Len(emails[p]) + todo, 1)

\* the most steps a resolution of a whole history can take
ResolveLeft == MaxHistory + LoopLeft(MaxHistory, 1)

\* an upper bound of the steps the invocation in slot p has left
StepsLeft(p) ==
  CASE pc[p] = "get" -> ResolveLeft + 5
    [] pc[p] = "refresh" -> ResolveLeft + 4
    [] pc[p] = "history" -> ResolveLeft + 3
    [] pc[p] = "refresh401" -> ResolveLeft + 2
    [] pc[p] = "historyRetry" -> ResolveLeft + 1
    [] pc[p] = "fetchMessage" -> FetchLeft(p)
    [] pc[p] = "loop" -> LoopLeft(Len(emails[p]), ei[p])
    [] pc[p] = "send" -> SendLeft(p) + LoopLeft(Len(emails[p]), ei[p] + 1) + 1
    [] pc[p] = "backoff" -> SendLeft(p) + LoopLeft(Len(emails[p]), ei[p] + 1)
    [] pc[p] \in {"returned", "threw"} -> LoopLeft(Len(emails[p]), ei[p] + 1) + 1
    [] pc[p] \in {"putBaseline", "putEmpty", "putFinal"} -> 1
    [] OTHER -> 0

\* C15: whichever call fails (cursor read, token refresh, change query, fetch
\* or parse, delivery, cursor write), processNotification never throws to its
\* caller and always terminates: an invocation in flight can always take a
\* step, every step it takes lowers a bound on the steps it has left, and it
\* ends with the baseline stored, the cursor committed or the failure
\* swallowed.
C15_TerminatesSilently ==
  /\ [](\A p \in Procs :
          /\ pc[p] # "rejected"
          /\ InFlight(p) => ENABLED Step(p)
          /\ pc[p] = "done" => result[p] \in {"baseline", "committed", "failed"}
          /\ StepsLeft(p) >= 0)
  /\ [][\A p \in Procs :
          InFlight(p) /\ <<pc[p], mi[p], ei[p], attempt[p]>>'
                           # <<pc[p], mi[p], ei[p], attempt[p]>>
            => StepsLeft(p)' < StepsLeft(p)]_vars

\* a failed cursor write at the end of a notification whose deliveries went
\* through, swallowed
C15_Witness ==
  \E p \in Procs :
    /\ pc[p] = "done"
    /\ result[p] = "failed"
    /\ caught[p] = "put"
    /\ sent[p] # <<>>

(* ------------------------------ Sender Filter ------------------------- *)

\* empty or only whitespace
Blank(s) == \A i \in 1..Len(s) : s[i] \in Whitespace

\* s without its leading and trailing whitespace
Trimmed(s) ==
  IF Blank(s)
  THEN <<>>
  ELSE LET Solid == {i \in 1..Len(s) : s[i] \notin Whitespace}
           lo == CHOOSE i \in Solid : \A j \in Solid : i <= j
           hi == CHOOSE i \in Solid : \A j \in Solid : j <= i
       IN  SubSeq(s, lo, hi)

\* the pairs of an opening and a closing angle bracket with text in between
Brackets(s) ==
  {ij \in (1..Len(s)) \X (1..Len(s)) :
     s[ij[1]] = "<" /\ s[ij[2]] = ">" /\ ij[2] > ij[1] + 1}

\* the text inside the angle brackets when there is such text (the first
\* opening bracket, up to the nearest closing one), else the whole value
AddressOf(s) ==
  IF Brackets(s) = {}
  THEN s
  ELSE LET ij == CHOOSE a \in Brackets(s) :
                   \A b \in Brackets(s) :
                     a[1] < b[1] \/ (a[1] = b[1] /\ a[2] <= b[2])
       IN  SubSeq(s, ij[1] + 1, ij[2] - 1)

\* the entries of a comma-separated list: its longest stretches without a
\* comma, the empty ones included
Entries(s) ==
  LET n == Len(s)
      Bounds == {ij \in (1..(n + 1)) \X (0..n) :
                   /\ ij[1] <= ij[2] + 1
                   /\ ij[1] = 1 \/ s[ij[1] - 1] = ","
                   /\ ij[2] = n \/ s[ij[2] + 1] = ","
                   /\ \A k \in ij[1]..ij[2] : s[k] # ","}
  IN  {SubSeq(s, ij[1], ij[2]) : ij \in Bounds}

OnList(id) == ALLOWED_SENDERS = <<>> \/ id = "m1"

\* the emails among the first n of an invocation whose sender is rejected
RejectedAmong(p, n) ==
  {i \in 1..n : ~OnList(emails[p][i].messageId)}

\* fetchNewEmails returned a batch in which every sender is rejected
AllRejected(p) ==
  /\ emails[p] # <<>>
  /\ mi[p] > Len(messageIds[p])
  /\ RejectedAmong(p, Len(emails[p])) = 1..Len(emails[p])

\* C17: a message the Sender Filter rejects is never handed to the delivery,
\* raises no error and lets the loop go on to the next message or to the
\* final put; a batch in which every message is rejected ends with no
\* delivery, a filtered count equal to the batch size and the notification's
\* historyId stored.
C17_FilteredMessages ==
  /\ [](\A p \in Procs :
          /\ \A i \in 1..Len(tried[p]) : OnList(tried[p][i])
          /\ filteredCount[p] = Cardinality(RejectedAmong(p, ei[p] - 1))
          /\ (pc[p] = "done" /\ AllRejected(p)) =>
               /\ tried[p] = <<>> /\ sent[p] = <<>>
               /\ processedCount[p] = 0
               /\ filteredCount[p] = Len(emails[p])
               /\ result[p] = "committed"
               /\ GMAIL_STATE[Key(p)] = notification[p].historyId)
  /\ [][\A p \in Procs :
          filteredCount'[p] = filteredCount[p] + 1 =>
            /\ caught'[p] = "" /\ result'[p] = "none"
            /\ ei'[p] = ei[p] + 1
            /\ pc'[p] = IF ei[p] < Len(emails[p]) THEN "loop" ELSE "putFinal"]_vars

\* a batch of two messages, both rejected, committed
C17_Witness ==
  \E p \in Procs :
    /\ pc[p] = "done"
    /\ Len(emails[p]) = 2
    /\ AllRejected(p)
    /\ filteredCount[p] = 2
    /\ result[p] = "committed"

(* ------------------------------ truncation ---------------------------- *)

\* the codepoints of a string of UTF-16 code units: "E" for a surrogate
\* pair, "?" for a surrogate without its other half.  The string is read in
\* two halves, cut where no pair is split.
RECURSIVE Codepoints(_)
Codepoints(s) ==
  IF s = <<>> THEN <<>>
  ELSE IF Len(s) = 1 THEN <<IF s[1] \in {"H", "L"} THEN "?" ELSE s[1]>>
  ELSE IF s[1] = "H" /\ s[2] = "L"
       THEN <<"E">> \o Codepoints(SubSeq(s, 3, Len(s)))
       ELSE LET m == Len(s) \div 2
                cut == IF s[m] = "H" /\ s[m + 1] = "L" THEN m - 1 ELSE m
            IN  Codepoints(SubSeq(s, 1, cut))
                  \o Codepoints(SubSeq(s, cut + 1, Len(s)))

\* C18: the snippet of a normalized message has at most 200 codepoints, is a
\* prefix of the body as a sequence of codepoints (it never ends in half of
\* a surrogate pair), and is empty when the body is empty.
C18_Truncation ==
  (arg.fn = "ParsedEmail" /\ ret # NoCall) =>
    /\ Len(Codepoints(ret.value.snippet)) <= SnippetLength
    /\ IsPrefix(Codepoints(ret.value.snippet), Codepoints(arg.body))
    /\ ret.value.snippet # <<>> => Last(ret.value.snippet) # "H"
    /\ arg.body = <<>> => ret.value.snippet = <<>>

(* --------------------------- payload derivation ----------------------- *)

\* the text that follows the blank line of the message
MessageText(email) == IF email.body = <<>> THEN email.snippet ELSE email.body

\* C19: the payload of a message is a function of the message alone: its
\* message is "New email from {from}\nSubject: {subject}\n\n{body}", with the
\* snippet in place of the body only when the body is empty, and its name,
\* channel and wakeMode are 'gmail-notification', 'last' and 'now'.
C19_PayloadDerivation ==
  (arg.fn = "transformToOpenClaw" /\ ret # NoCall) =>
    /\ ret.value.message =
         <<"New email from ">> \o arg.email.from
           \o <<"\nSubject: ">> \o arg.email.subject
           \o <<"\n\n">> \o MessageText(arg.email)
    /\ ret.value.name = "gmail-notification"
    /\ ret.value.channel = "last"
    /\ ret.value.wakeMode = "now"
    /\ DOMAIN ret.value = {"message", "name", "channel", "wakeMode"}

\* a message with a body and a different snippet: the payload carries the body
C19_Witness ==
  /\ arg.fn = "transformToOpenClaw"
  /\ ret # NoCall
  /\ arg.email.body = <<"b">>
  /\ arg.email.snippet = <<"c">>
  /\ Last(ret.value.message) = "b"

(* -------------------------------- ordering ---------------------------- *)

\* the ids of a sequence of ids whose sender is on the allow-list
RECURSIVE OnListOf(_)
OnListOf(ids) ==
  IF ids = <<>>
  THEN <<>>
  ELSE (IF OnList(Head(ids)) THEN <<Head(ids)>> ELSE <<>>) \o OnListOf(Tail(ids))

\* a call of sendToOpenClawWithRetry is under way or has thrown
DeliveryOpen(p) ==
  \/ pc[p] \in {"send", "backoff", "returned", "threw"}
  \/ pc[p] = "done" /\ caught[p] = "delivery"

\* the emails whose round of the loop has begun
Begun(p) == IF DeliveryOpen(p) THEN ei[p] ELSE ei[p] - 1

\* C20: the ids fetchNewEmails collects are the message-added ids of the
\* feed after the stored cursor, in feed order, and the emails it returns
\* are those not skipped, in that order; the handler hands the allowed ones
\* to the delivery in that order, one at a time: at most the last message
\* handed over is still without its 2xx answer, every one before it has
\* finished.
C20_Ordering ==
  \A p \in Procs :
    pc[p] # "idle" =>
      /\ IsPrefix(messageIds[p],
                  AddedBetween(history[Mailbox(p)], lastHistoryId[p],
                               Len(history[Mailbox(p)])))
      /\ EmailIds(p) =
           Keep(messageIds[p], 1,
                skipped[p] \cup (mi[p]..Len(messageIds[p])))
      /\ tried[p] = OnListOf(SubSeq(EmailIds(p), 1, Begun(p)))
      /\ sent[p] = IF DeliveryOpen(p)
                   THEN SubSeq(tried[p], 1, Len(tried[p]) - 1)
                   ELSE tried[p]

\* two different messages resolved and delivered in feed order
C20_Witness ==
  \E p \in Procs :
    /\ pc[p] = "done"
    /\ messageIds[p] = <<"m2", "m1">>
    /\ EmailIds(p) = <<"m2", "m1">>
    /\ sent[p] = <<"m2", "m1">>

(* ------------------------- Cursor Store accesses ---------------------- *)

\* what an invocation has done towards its resolution and its deliveries
Work(p) ==
  <<kvReads[p], refreshCount[p], queries[p], fetchCount[p], tried[p],
    posts[p], sent[p]>>

\* C21 as stated: every notification handled has read the Cursor Store
\* exactly once and written it exactly once.
C21_ReadOnceWrittenOnce ==
  \A p \in Procs : pc[p] = "done" => kvReads[p] = 1 /\ kvWrites[p] = 1

\* C21, amended: a notification reads the Cursor Store exactly once, before
\* any token refresh, query or fetch, and writes it at most once: exactly
\* once when it ends with the baseline stored or committed, not at all when
\* it ends in the swallowed failure.  The write is its last step: the
\* resolution has returned, the loop over the emails has ended with no
\* delivery under way, and nothing is resolved or delivered after it.
C21_StoreAccess ==
  /\ [](\A p \in Procs :
          /\ kvReads[p] <= 1 /\ kvWrites[p] <= 1
          /\ kvReads[p] = 0 =>
               /\ pc[p] \in {"idle", "get"}
               /\ Work(p) = <<0, 0, <<>>, 0, <<>>, <<>>, <<>>>>
               /\ kvWrites[p] = 0
          /\ pc[p] \notin {"idle", "get"} => kvReads[p] = 1
          /\ kvWrites[p] = 1 =>
               /\ pc[p] = "done"
               /\ result[p] \in {"baseline", "committed"}
               /\ mi[p] > Len(messageIds[p])
               /\ ei[p] > Len(emails[p])
               /\ Len(sent[p]) = Len(tried[p])
          /\ (pc[p] = "done" /\ result[p] \in {"baseline", "committed"})
               => kvWrites[p] = 1
          /\ (pc[p] = "done" /\ result[p] = "failed") => kvWrites[p] = 0)
  /\ [][\A p \in Procs :
          (kvWrites[p] = 1 /\ kvWrites'[p] = 1) => Work(p)' = Work(p)]_vars

\* a notification that read once, delivered, and wrote once at the end
C21_Witness ==
  \E p \in Procs :
    /\ pc[p] = "done"
    /\ kvReads[p] = 1
    /\ kvWrites[p] = 1
    /\ result[p] = "committed"
    /\ sent[p] # <<>>

(* ------------------------ ChangeSet deduplication --------------------- *)

\* no id occurs twice in a sequence of ids
Distinct(q) == \A i, j \in 1..Len(q) : i # j => q[i] # q[j]

\* C22: within one notification a message is fetched at most once and handed
\* to the delivery at most once, the change feed listing its id in more than
\* one message-added record included.
C22_ChangeSetDeduplicated ==
  \A p \in Procs : Distinct(EmailIds(p)) /\ Distinct(tried[p])

(* --------------------------- skipped messages ------------------------- *)

\* the messages of an invocation whose fetch was skipped
SkippedIds(p) == {messageIds[p][i] : i \in skipped[p]}

\* C23 (as claimed), for the notification handled next after the one that
\* stored the baseline: when it has stored its cursor C, every message added
\* after the baseline and at or before C has been delivered with a 2xx
\* answer, unless the Sender Filter rejects its sender or its fetch was
\* skipped.
C23_NoSkippedMessages ==
  \A p, q \in Procs :
    (/\ pc[q] = "done" /\ result[q] = "baseline"
     /\ pc[p] = "done" /\ kvWrites[p] = 1 /\ lastHistoryId[p] # NoCursor)
      => \A m \in Ids(AddedBetween(history[Mailbox(p)],
                                   notification[q].historyId,
                                   GMAIL_STATE[Key(p)])) :
           \/ m \in Ids(sent[p])
           \/ ~isAllowedSender(FromOf(m), ALLOWED_SENDERS)
           \/ m \in SkippedIds(p)

====
